---- MODULE Spec2Model ----
(***************************************************************************)
(* A model of the APOD image cache of apod_desktop.py / apod_api.py:       *)
(* the sqlite table image_data, the image files of the cache directory,    *)
(* the add-to-cache pipeline, the lookups, and the top-level flow main().  *)
(*                                                                         *)
(* Strings the code takes apart (titles, URLs, digests, paths) are         *)
(* sequences of one-character strings; image bytes are small integers.     *)
(***************************************************************************)
EXTENDS Integers, Sequences, FiniteSets, TLC

VARIABLES
    image_data,   \* the rows of table image_data, in rowid order
    files,        \* the image files of image_cache_dir: path -> bytes
    assigned,     \* history: every row an INSERT committed, with its date and bytes
    call,         \* the last operation: its arguments, what it returned, where it ended
    p_title,      \* determine_apod_file_path: argument image_title
    p_url,        \* determine_apod_file_path: argument image_url
    p_path,       \* determine_apod_file_path: <<returned path>>, <<>> before the call
    pc,           \* two concurrent add_apod_to_cache runs: each process's position
    loc,          \* ... each process's local variables
    events        \* ... the order of the processes' database steps

vars == <<image_data, files, assigned, call, p_title, p_url, p_path, pc, loc, events>>

(***************************************************************************)
(* Bounds of the model.                                                    *)
(***************************************************************************)
NumImages == 2      \* distinct image contents a download can return
MaxTitleLen == 4    \* longest title given to determine_apod_file_path
MaxUrlLen == 3      \* longest URL given to determine_apod_file_path

Images == 1..NumImages

(***************************************************************************)
(* Characters.                                                             *)
(***************************************************************************)
Letters == {"a", "b", "c", "d", "e", "f", "h", "j", "y", "M", "V", "A", "B", "C", "D", "E", "F"}
Digits == {"0", "1", "2", "3", "4", "5", "6", "7", "8", "9"}
Whitespace == {" ", "\t"}

\* str.isspace: what str.strip() removes
IsSpace(c) == c \in Whitespace

\* re \w: a letter, a digit or the underscore
IsWord(c) == c \in Letters \cup Digits \cup {"_"}

\* str.strip()
strip(s) ==
    LET keep == {i \in 1..Len(s) : ~IsSpace(s[i])}
    IN  IF keep = {} THEN <<>>
        ELSE LET first == CHOOSE i \in keep : \A j \in keep : i <= j
                 last == CHOOSE i \in keep : \A j \in keep : j <= i
             IN  SubSeq(s, first, last)

\* str.replace(' ', '_')
replace_space(s) == [i \in 1..Len(s) |-> IF s[i] = " " THEN "_" ELSE s[i]]

\* re.sub(r'\W+', '', s)
sub_nonword(s) == SelectSeq(s, IsWord)

\* s.split(".")[-1]: what follows the last "." of s, all of s when it has none
split_last(s) ==
    LET dots == {i \in 1..Len(s) : s[i] = "."}
    IN  IF dots = {} THEN s
        ELSE LET last == CHOOSE i \in dots : \A j \in dots : j <= i
             IN  SubSeq(s, last + 1, Len(s))

image_cache_dir == <<"images">>

\* os.path.join(image_cache_dir, file_name); file_name never starts with "/"
path_join(dir, file_name) == dir \o <<"/">> \o file_name

determine_apod_file_path_no_strip(image_title, image_url) ==
    path_join(image_cache_dir,
              sub_nonword(replace_space(image_title)) \o <<".">> \o split_last(image_url))

determine_apod_file_path(image_title, image_url) ==
    LET file_ext == split_last(image_url)
        file_name == sub_nonword(replace_space(strip(image_title)))
    IN  path_join(image_cache_dir, file_name \o <<".">> \o file_ext)

(***************************************************************************)
(* The content hash.  hashlib.sha256(data).hexdigest() is a string of      *)
(* lowercase hexadecimal digits, and distinct contents have distinct       *)
(* digests; here the digest has two digits and is injective on Images.     *)
(***************************************************************************)
HexDigits == <<"0", "1", "2", "3", "4", "5", "6", "7", "8", "9", "a", "b", "c", "d", "e", "f">>

hexdigest(data) ==
    LET n == (data * 171 + 10) % 256
    IN  <<HexDigits[(n \div 16) + 1], HexDigits[(n % 16) + 1]>>

upper_char(c) ==
    CASE c = "a" -> "A" [] c = "b" -> "B" [] c = "c" -> "C"
      [] c = "d" -> "D" [] c = "e" -> "E" [] c = "f" -> "F"
      [] OTHER -> c

\* str.upper()
upper(s) == [i \in 1..Len(s) |-> upper_char(s[i])]

(***************************************************************************)
(* The NASA API, by date: the JSON of a 200 response.  A dict is a record  *)
(* whose domain is the keys present: an image of some days has an hdurl,   *)
(* a video has a thumbnail_url on some days and none on others.            *)
(***************************************************************************)
Catalogue == <<
    [title |-> <<" ", "M", " ", "1">>, explanation |-> "e1", media_type |-> "image",
     url |-> <<"h", "/", "a", ".", "j">>, hdurl |-> <<"h", "/", "A", ".", "j">>],
    [title |-> <<" ", "M", " ", "1">>, explanation |-> "e2", media_type |-> "image",
     url |-> <<"h", "/", "b", ".", "j">>, hdurl |-> <<"h", "/", "B", ".", "j">>],
    [title |-> <<"V", "#", "2">>, explanation |-> "e3", media_type |-> "video",
     url |-> <<"y", ".", "c", "/", "e">>],
    [title |-> <<"V", "#", "2">>, explanation |-> "e4", media_type |-> "video",
     url |-> <<"y", ".", "c", "/", "e">>, thumbnail_url |-> <<"y", "/", "t", ".", "j">>]
  >>

Dates == DOMAIN Catalogue

\* apod_api.get_apod_info: <<the dict>> on status 200, <<>> (None) otherwise
apod_api_get_apod_info(apod_date, status_ok) ==
    IF status_ok THEN <<Catalogue[apod_date]>> ELSE <<>>

\* apod_api.get_apod_image_url: a dict lookup of an absent key raises KeyError,
\* and a media_type that is neither image nor video falls off the end (None)
get_apod_image_url(apod_info_dict) ==
    IF apod_info_dict.media_type = "image"
    THEN IF "hdurl" \in DOMAIN apod_info_dict
         THEN [kind |-> "url", url |-> apod_info_dict.hdurl]
         ELSE [kind |-> "KeyError", url |-> <<>>]
    ELSE IF apod_info_dict.media_type = "video"
    THEN IF "thumbnail_url" \in DOMAIN apod_info_dict
         THEN [kind |-> "url", url |-> apod_info_dict.thumbnail_url]
         ELSE [kind |-> "KeyError", url |-> <<>>]
    ELSE [kind |-> "None", url |-> <<>>]

(***************************************************************************)
(* The image cache database: db is the rows of table image_data.           *)
(***************************************************************************)
init_apod_cache_recreate(table_exists, rows) == <<>>

\* CREATE TABLE IF NOT EXISTS image_data: an existing table keeps its rows
init_apod_cache(table_exists, rows) == IF table_exists THEN rows ELSE <<>>

\* id INTEGER PRIMARY KEY: the rowid after the largest one in the table
next_rowid(db) ==
    IF db = <<>> THEN 1
    ELSE (CHOOSE m \in {db[i].id : i \in DOMAIN db} :
              \A i \in DOMAIN db : db[i].id <= m) + 1

\* commit_ok: whether connect, INSERT and commit went through (any exception
\* is caught and answered by zero)
add_apod_to_db(db, title, explanation, file_path, sha256, commit_ok) ==
    IF commit_ok
    THEN LET id == next_rowid(db)
         IN  [db |-> Append(db, [id |-> id, title |-> title, explanation |-> explanation,
                                 file_path |-> file_path, sha256 |-> upper(sha256)]),
              ret |-> id]
    ELSE [db |-> db, ret |-> 0]

get_apod_id_from_db_no_upper(db, image_sha256) ==
    LET hit == {i \in DOMAIN db : db[i].sha256 = image_sha256}
    IN  IF hit # {}
        THEN db[CHOOSE i \in hit : \A j \in hit : i <= j].id
        ELSE 0

get_apod_id_from_db_by_path(db, image_sha256) ==
    LET hit == {i \in DOMAIN db : db[i].file_path = upper(image_sha256)}
    IN  IF hit # {}
        THEN db[CHOOSE i \in hit : \A j \in hit : i <= j].id
        ELSE 0

\* SELECT id FROM image_data WHERE sha256=?; fetchone(): the first row that matches
get_apod_id_from_db(db, image_sha256) ==
    LET hit == {i \in DOMAIN db : db[i].sha256 = upper(image_sha256)}
    IN  IF hit # {}
        THEN db[CHOOSE i \in hit : \A j \in hit : i <= j].id
        ELSE 0

\* SELECT ... WHERE id=?; fetchone() is None when no row matches, and
\* query_result[0] then raises TypeError
get_apod_info(db, image_id) ==
    LET hit == {i \in DOMAIN db : db[i].id = image_id}
    IN  IF hit = {}
        THEN [outcome |-> "TypeError", info |-> <<>>]
        ELSE LET row == db[CHOOSE i \in hit : TRUE]
             IN  [outcome |-> "returned",
                  info |-> <<[title |-> row.title, explanation |-> row.explanation,
                              file_path |-> row.file_path]>>]

\* SELECT title FROM image_data
get_all_apod_titles(db) == [i \in DOMAIN db |-> db[i].title]

(***************************************************************************)
(* image_lib: download_image(url) answers the bytes or None, and           *)
(* save_image_file(data, path) writes the file and answers whether it did. *)
(***************************************************************************)
save_image_file(fs, image_data_bytes, image_path, write_ok) ==
    IF write_ok
    THEN [fs |-> [p \in DOMAIN fs \cup {image_path} |->
                     IF p = image_path THEN image_data_bytes ELSE fs[p]],
          ok |-> TRUE]
    ELSE [fs |-> fs, ok |-> FALSE]

(***************************************************************************)
(* add_apod_to_cache.  status_ok, dl, write_ok and commit_ok are what the  *)
(* API, the download, the file system and sqlite answer; dl is <<bytes>>   *)
(* or <<>> (None).  The result: the database and files after the call,     *)
(* what it returned, the URL it downloaded (<<>> if none), and the stage   *)
(* it ended at.                                                            *)
(***************************************************************************)
add_apod_to_cache(db, fs, apod_date, status_ok, dl, write_ok, commit_ok) ==
    LET apod_info == apod_api_get_apod_info(apod_date, status_ok)
    IN  IF apod_info = <<>>
        THEN [db |-> db, fs |-> fs, ret |-> 0, url |-> <<>>, dl |-> <<>>,
              stage |-> "no_info"]
        ELSE
    LET apod_title == apod_info[1].title
        apod_url == apod_info[1].url
    IN  IF dl = <<>>
        THEN [db |-> db, fs |-> fs, ret |-> 0, url |-> <<apod_url>>, dl |-> <<>>,
              stage |-> "no_download"]
        ELSE
    LET apod_sha256 == hexdigest(dl[1])
        apod_id == get_apod_id_from_db(db, apod_sha256)
    IN  IF apod_id # 0
        THEN [db |-> db, fs |-> fs, ret |-> apod_id, url |-> <<apod_url>>, dl |-> dl,
              stage |-> "in_cache"]
        ELSE
    LET apod_path == determine_apod_file_path(apod_title, apod_url)
        saved == save_image_file(fs, dl[1], apod_path, write_ok)
    IN  IF ~saved.ok
        THEN [db |-> db, fs |-> saved.fs, ret |-> 0, url |-> <<apod_url>>, dl |-> dl,
              stage |-> "not_saved"]
        ELSE
    LET added == add_apod_to_db(db, apod_title, apod_info[1].explanation, apod_path,
                                apod_sha256, commit_ok)
    IN  [db |-> added.db, fs |-> saved.fs, ret |-> added.ret, url |-> <<apod_url>>,
         dl |-> dl, stage |-> IF added.ret # 0 THEN "added" ELSE "not_added"]

(***************************************************************************)
(* The operations, one after another (one process).                        *)
(***************************************************************************)
NoCall ==
    [op |-> "none", date |-> 0, hash |-> <<>>, id |-> 0, url |-> <<>>, dl |-> <<>>,
     ret |-> 0, stage |-> "", outcome |-> "", info |-> <<>>, titles |-> <<>>]

DownloadResults == {<<>>} \cup {<<b>> : b \in Images}

\* What the API, the download, the file system and sqlite answer in one call.  A
\* stage that fails ends the call, so the answers after it are never asked for
\* and are fixed here.
Answers ==
    {a \in [status_ok : BOOLEAN, dl : DownloadResults, write_ok : BOOLEAN,
            commit_ok : BOOLEAN] :
        /\ ~a.status_ok => a.dl = <<>>
        /\ a.dl = <<>> => ~a.write_ok
        /\ ~a.write_ok => ~a.commit_ok}

PathIdle == p_title = <<>> /\ p_url = <<>> /\ p_path = <<>>
ConcIdle == pc = <<>> /\ loc = <<>> /\ events = <<>>

\* the state after the first init_apod_cache() on a fresh installation
Init ==
    /\ image_data = init_apod_cache(FALSE, <<>>)
    /\ files = <<>>
    /\ assigned = <<>>
    /\ call = NoCall
    /\ PathIdle
    /\ ConcIdle

Committed(r, apod_date) ==
    IF r.stage = "added"
    THEN Append(assigned, [row |-> r.db[Len(r.db)], date |-> apod_date, data |-> r.dl[1]])
    ELSE assigned

InitApodCache ==
    /\ image_data' = init_apod_cache(TRUE, image_data)
    /\ call' = [NoCall EXCEPT !.op = "init"]
    /\ UNCHANGED <<files, assigned, p_title, p_url, p_path, pc, loc, events>>

AddApodToCache ==
    \E apod_date \in Dates, a \in Answers :
        \E r \in {add_apod_to_cache(image_data, files, apod_date, a.status_ok, a.dl,
                                    a.write_ok, a.commit_ok)} :
            /\ image_data' = r.db
            /\ files' = r.fs
            /\ assigned' = Committed(r, apod_date)
            /\ call' = [NoCall EXCEPT !.op = "add", !.date = apod_date, !.url = r.url,
                                      !.dl = r.dl, !.ret = r.ret, !.stage = r.stage]
            /\ UNCHANGED <<p_title, p_url, p_path, pc, loc, events>>

GetApodIdFromDb ==
    \E b \in Images, as_stored \in BOOLEAN :
        LET image_sha256 == IF as_stored THEN upper(hexdigest(b)) ELSE hexdigest(b)
        IN  /\ call' = [NoCall EXCEPT !.op = "find", !.hash = image_sha256,
                                      !.ret = get_apod_id_from_db(image_data, image_sha256)]
            /\ UNCHANGED <<image_data, files, assigned, p_title, p_url, p_path,
                           pc, loc, events>>

GetApodInfo ==
    \E image_id \in 0..(NumImages + 1) :
        LET r == get_apod_info(image_data, image_id)
        IN  /\ call' = [NoCall EXCEPT !.op = "get", !.id = image_id,
                                      !.outcome = r.outcome, !.info = r.info]
            /\ UNCHANGED <<image_data, files, assigned, p_title, p_url, p_path,
                           pc, loc, events>>

GetAllApodTitles ==
    /\ call' = [NoCall EXCEPT !.op = "titles", !.titles = get_all_apod_titles(image_data)]
    /\ UNCHANGED <<image_data, files, assigned, p_title, p_url, p_path, pc, loc, events>>

\* main(): init_apod_cache, add_apod_to_cache, get_apod_info of what it returned,
\* then set_desktop_background_image of the file path (nothing of this state)
Main ==
    \E apod_date \in Dates, a \in Answers :
        \E r \in {add_apod_to_cache(init_apod_cache(TRUE, image_data), files, apod_date,
                                    a.status_ok, a.dl, a.write_ok, a.commit_ok)} :
        \E apod_info \in {get_apod_info(r.db, r.ret)} :
            /\ image_data' = r.db
            /\ files' = r.fs
            /\ assigned' = Committed(r, apod_date)
            /\ call' = [NoCall EXCEPT !.op = "main", !.date = apod_date, !.url = r.url,
                                      !.dl = r.dl, !.ret = r.ret, !.stage = r.stage,
                                      !.id = r.ret, !.outcome = apod_info.outcome,
                                      !.info = apod_info.info]
            /\ UNCHANGED <<p_title, p_url, p_path, pc, loc, events>>

Next ==
    \/ InitApodCache
    \/ AddApodToCache
    \/ GetApodIdFromDb
    \/ GetApodInfo
    \/ GetAllApodTitles

Spec == Init /\ [][Next]_vars

(***************************************************************************)
(* The program, run again and again: each run is main().                   *)
(***************************************************************************)
NextMain == Main

SpecMain == Init /\ [][NextMain]_vars

(***************************************************************************)
(* determine_apod_file_path on every title and URL of a bounded alphabet.  *)
(***************************************************************************)
TitleChars == {"a", "1", "_", " ", "\t", "#"}
UrlChars == {"a", ".", "/"}

SeqsUpTo(S, n) == UNION {[1..k -> S] : k \in 0..n}

CacheIdle ==
    /\ image_data = <<>>
    /\ files = <<>>
    /\ assigned = <<>>
    /\ call = NoCall

InitPath ==
    /\ p_title \in SeqsUpTo(TitleChars, MaxTitleLen)
    /\ p_url \in SeqsUpTo(UrlChars, MaxUrlLen)
    /\ p_path = <<>>
    /\ CacheIdle
    /\ ConcIdle

DetermineApodFilePath ==
    /\ p_path = <<>>
    /\ p_path' = <<determine_apod_file_path(p_title, p_url)>>
    /\ UNCHANGED <<image_data, files, assigned, call, p_title, p_url, pc, loc, events>>

NextPath == DetermineApodFilePath

SpecPath == InitPath /\ [][NextPath]_vars

(***************************************************************************)
(* Two processes in add_apod_to_cache at once, on one cache.  Each opens   *)
(* its own sqlite connection per statement, so a process's steps on the    *)
(* shared state are: the SELECT of get_apod_id_from_db, the file write of  *)
(* save_image_file, and the INSERT with its commit of add_apod_to_db.      *)
(***************************************************************************)
Procs == {1, 2}

InitConc ==
    /\ CacheIdle
    /\ PathIdle
    /\ pc = [p \in Procs |-> "start"]
    /\ loc = [p \in Procs |-> [date |-> 0, dl |-> <<>>, ret |-> 0]]
    /\ events = <<>>

Return(p, value) ==
    /\ pc' = [pc EXCEPT ![p] = "done"]
    /\ loc' = [loc EXCEPT ![p].ret = value]

\* lines 126-138: the API request and the download
Download(p) ==
    /\ pc[p] = "start"
    /\ \E apod_date \in Dates, status_ok \in BOOLEAN, dl \in DownloadResults :
          IF apod_api_get_apod_info(apod_date, status_ok) = <<>> \/ dl = <<>>
          THEN /\ pc' = [pc EXCEPT ![p] = "done"]
               /\ loc' = [loc EXCEPT ![p] = [date |-> apod_date, dl |-> <<>>, ret |-> 0]]
          ELSE /\ pc' = [pc EXCEPT ![p] = "check"]
               /\ loc' = [loc EXCEPT ![p] = [date |-> apod_date, dl |-> dl, ret |-> 0]]
    /\ UNCHANGED <<image_data, files, assigned, call, p_title, p_url, p_path, events>>

\* lines 140-145: the dedup check
Check(p) ==
    /\ pc[p] = "check"
    /\ \E apod_id \in {get_apod_id_from_db(image_data, hexdigest(loc[p].dl[1]))} :
          IF apod_id # 0
          THEN Return(p, apod_id)
          ELSE pc' = [pc EXCEPT ![p] = "save"] /\ loc' = loc
    /\ events' = Append(events, [proc |-> p, step |-> "check"])
    /\ UNCHANGED <<image_data, files, assigned, call, p_title, p_url, p_path>>

\* lines 147-150: the file write
Save(p) ==
    /\ pc[p] = "save"
    /\ \E write_ok \in BOOLEAN :
       \E saved \in {save_image_file(files, loc[p].dl[1],
                        determine_apod_file_path(Catalogue[loc[p].date].title,
                                                 Catalogue[loc[p].date].url),
                        write_ok)} :
          /\ files' = saved.fs
          /\ IF saved.ok
             THEN pc' = [pc EXCEPT ![p] = "insert"] /\ loc' = loc
             ELSE Return(p, 0)
    /\ UNCHANGED <<image_data, assigned, call, p_title, p_url, p_path, events>>

\* lines 152-155: the insert and its commit
Insert(p) ==
    /\ pc[p] = "insert"
    /\ \E commit_ok \in BOOLEAN :
       \E added \in {add_apod_to_db(image_data, Catalogue[loc[p].date].title,
                        Catalogue[loc[p].date].explanation,
                        determine_apod_file_path(Catalogue[loc[p].date].title,
                                                 Catalogue[loc[p].date].url),
                        hexdigest(loc[p].dl[1]), commit_ok)} :
          /\ image_data' = added.db
          /\ Return(p, added.ret)
          /\ events' = IF added.ret # 0
                       THEN Append(events, [proc |-> p, step |-> "commit"])
                       ELSE events
    /\ UNCHANGED <<files, assigned, call, p_title, p_url, p_path>>

NextConc == \E p \in Procs : Download(p) \/ Check(p) \/ Save(p) \/ Insert(p)

SpecConc == InitConc /\ [][NextConc]_vars

(***************************************************************************)
(* Properties.                                                             *)
(***************************************************************************)
RowsWithHash(sha256) == {i \in DOMAIN image_data : image_data[i].sha256 = sha256}

StoredHash(data) == upper(hexdigest(data))

NoSharedHash ==
    \A i, j \in DOMAIN image_data :
        image_data[i].sha256 = image_data[j].sha256 => i = j

DedupStep ==
    \A b \in Images :
        (call'.op = "add" /\ call'.dl = <<b>> /\ RowsWithHash(StoredHash(b)) # {})
        => /\ image_data' = image_data
           /\ files' = files
           /\ \E i \in RowsWithHash(StoredHash(b)) : call'.ret = image_data[i].id

\* C1: in a series of add_apod_to_cache calls, a call whose downloaded bytes hash
\* to a sha256 already in image_data returns the id of that row and leaves the
\* table and the files as they were; and no two rows ever share a sha256.
C1_DedupByContentHash == []NoSharedHash /\ [][DedupStep]_vars

\* a call for another date than the one that cached the image found it in the cache
C1_Witness ==
    /\ call.op = "add"
    /\ call.stage = "in_cache"
    /\ \E k \in DOMAIN assigned :
          /\ assigned[k].row.id = call.ret
          /\ assigned[k].date # call.date
          /\ <<assigned[k].data>> = call.dl

FailedStages == {"no_info", "no_download", "not_saved", "not_added"}

\* C2: when add_apod_to_cache fails at any stage it returns zero, and main() then
\* ends without an unhandled error.
C2_MainSurvivesFailedAdd ==
    (call.op = "main" /\ call.stage \in FailedStages)
    => (call.ret = 0 /\ call.outcome # "TypeError")

\* C3: the URL add_apod_to_cache downloads is the one get_apod_image_url selects
\* on the record (hdurl of an image, thumbnail_url of a video).
C3_DownloadsSelectedUrl ==
    (call.op = "add" /\ call.url # <<>>)
    => \E sel \in {get_apod_image_url(Catalogue[call.date])} :
          sel.kind = "url" /\ call.url = <<sel.url>>

NoThumbnailDates ==
    {d \in Dates : /\ Catalogue[d].media_type = "video"
                   /\ "thumbnail_url" \notin DOMAIN Catalogue[d]}

\* C4: on a video record with no thumbnail_url, get_apod_image_url fails (it
\* returns no URL, empty or null), and add_apod_to_cache downloads nothing,
\* returns zero, writes no file and inserts no row.
C4_VideoWithoutThumbnailFails ==
    /\ \A k \in DOMAIN assigned : assigned[k].date \notin NoThumbnailDates
    /\ (call.op = "add" /\ call.date \in NoThumbnailDates /\ call.stage # "no_info")
       => /\ get_apod_image_url(Catalogue[call.date]).kind = "KeyError"
          /\ call.url = <<>>
          /\ call.ret = 0

FileHolds(row) ==
    /\ row.file_path \in DOMAIN files
    /\ StoredHash(files[row.file_path]) = row.sha256

\* C5: two add_apod_to_cache calls for different dates with the same title and URL
\* extension and different bytes both produce an entry, and after the second call
\* each entry's file holds that entry's bytes.
C5_SameTitleKeepsBothImages ==
    \A i, j \in DOMAIN assigned :
        ( /\ i < j
          /\ j = Len(assigned)
          /\ call.op = "add" /\ call.stage = "added" /\ call.ret = assigned[j].row.id
          /\ assigned[i].date # assigned[j].date
          /\ Catalogue[assigned[i].date].title = Catalogue[assigned[j].date].title
          /\ split_last(Catalogue[assigned[i].date].url)
               = split_last(Catalogue[assigned[j].date].url)
          /\ assigned[i].data # assigned[j].data )
        => /\ assigned[i].row.id # assigned[j].row.id
           /\ FileHolds(assigned[i].row)
           /\ FileHolds(assigned[j].row)

\* C6: after any sequence of init_apod_cache, add_apod_to_cache and lookups, every
\* row an insert committed is still in image_data, unchanged, and each id an
\* insert assigned is positive and differs from every id assigned before it.
C6_EntriesAndIdsPermanent ==
    \A k \in DOMAIN assigned :
        /\ \E i \in DOMAIN image_data : image_data[i] = assigned[k].row
        /\ assigned[k].row.id > 0
        /\ \A m \in 1..(k - 1) : assigned[m].row.id # assigned[k].row.id

\* init_apod_cache ran again on a cache that holds two entries
C6_Witness ==
    /\ call.op = "init"
    /\ Len(assigned) >= 2
    /\ Len(image_data) >= 2

\* C7: get_apod_info of an id that was never inserted (zero included) answers
\* "not found": it raises nothing and returns no entry.
C7_GetByIdNotFound ==
    (call.op = "get" /\ \A k \in DOMAIN assigned : assigned[k].row.id # call.id)
    => (call.outcome # "TypeError" /\ call.info = <<>>)

\* C8: after any sequence of add_apod_to_cache calls the image files and the rows
\* of image_data correspond one to one: every row's file exists, no two rows name
\* one file, and every file is named by a row.
C8_FilesMatchIndex ==
    /\ \A i \in DOMAIN image_data : image_data[i].file_path \in DOMAIN files
    /\ \A i, j \in DOMAIN image_data :
          image_data[i].file_path = image_data[j].file_path => i = j
    /\ \A f \in DOMAIN files : \E i \in DOMAIN image_data : image_data[i].file_path = f

(***************************************************************************)
(* determine_apod_file_path against two derivations of the file name.      *)
(***************************************************************************)
RECURSIVE TrimLeft(_)
TrimLeft(s) == IF s # <<>> /\ IsSpace(Head(s)) THEN TrimLeft(Tail(s)) ELSE s

RECURSIVE TrimRight(_)
TrimRight(s) ==
    IF s # <<>> /\ IsSpace(s[Len(s)]) THEN TrimRight(SubSeq(s, 1, Len(s) - 1)) ELSE s

\* each run of whitespace becomes one underscore
RECURSIVE CollapseRuns(_)
CollapseRuns(s) ==
    IF s = <<>> THEN <<>>
    ELSE IF IsSpace(Head(s)) THEN <<"_">> \o CollapseRuns(TrimLeft(s))
    ELSE <<Head(s)>> \o CollapseRuns(Tail(s))

RECURSIVE OnlyWord(_)
OnlyWord(s) ==
    IF s = <<>> THEN <<>>
    ELSE (IF IsWord(Head(s)) THEN <<Head(s)>> ELSE <<>>) \o OnlyWord(Tail(s))

\* what follows the last occurrence of c in s, all of s when c is not in it
RECURSIVE AfterLast(_, _)
AfterLast(s, c) ==
    IF s = <<>> THEN <<>>
    ELSE IF s[Len(s)] = c THEN <<>>
    ELSE Append(AfterLast(SubSeq(s, 1, Len(s) - 1), c), s[Len(s)])

\* the derivation as specified: whitespace runs collapsed, and the extension
\* taken from the final path segment of the URL (what follows the last "/"), so
\* that it never holds a "/"; a segment with no "." is taken whole, as split does
SpecifiedFileName(title, url) ==
    OnlyWord(CollapseRuns(TrimRight(TrimLeft(title))))
        \o <<".">> \o AfterLast(AfterLast(url, "/"), ".")

\* one underscore for each space, other whitespace dropped with the punctuation
RECURSIVE SpacesToUnderscores(_)
SpacesToUnderscores(s) ==
    IF s = <<>> THEN <<>>
    ELSE (CASE Head(s) = " " -> <<"_">>
            [] IsWord(Head(s)) -> <<Head(s)>>
            [] OTHER -> <<>>) \o SpacesToUnderscores(Tail(s))

\* the derivation as coded: every space its own underscore, and the extension
\* taken from the whole URL
CodedFileName(title, url) ==
    SpacesToUnderscores(TrimRight(TrimLeft(title))) \o <<".">> \o AfterLast(url, ".")

\* C9 as stated: the name is the trimmed title with each internal run of
\* whitespace replaced by exactly one underscore and every other non-word
\* character removed, and the extension is what follows the last "." of the
\* URL's final path segment; the path is name.extension in the cache directory.
C9_FileNameAsSpecified ==
    p_path # <<>>
    => p_path[1] = image_cache_dir \o <<"/">> \o SpecifiedFileName(p_title, p_url)

\* C9 as amended: the name is the trimmed title with each space replaced by one
\* underscore (a run of k spaces by k underscores) and every character that is
\* not a letter, digit or underscore, other whitespace included, removed; the
\* extension is what follows the last "." of the whole URL (the whole URL when
\* it has none); the path is name.extension in the cache directory.
C9_FileNameAsCoded ==
    p_path # <<>>
    => p_path[1] = image_cache_dir \o <<"/">> \o CodedFileName(p_title, p_url)

\* a title with a run of two spaces inside and a URL whose last "." is before
\* its final path segment
C9_Witness ==
    /\ p_title = <<"a", " ", " ", "1">>
    /\ p_url = <<".", "/", "a">>
    /\ p_path = << <<"images", "/", "a", "_", "_", "1", ".", "/", "a">> >>

(***************************************************************************)
(* Two processes that downloaded the same bytes.                           *)
(***************************************************************************)
AllDone == \A p \in Procs : pc[p] = "done"

SameBytes == loc[1].dl # <<>> /\ loc[1].dl = loc[2].dl

Before(first, second) ==
    \E i, j \in DOMAIN events : i < j /\ events[i] = first /\ events[j] = second

CommitOf(p) == [proc |-> p, step |-> "commit"]
CheckOf(p) == [proc |-> p, step |-> "check"]

OneRowForTheBytes == Cardinality(RowsWithHash(StoredHash(loc[1].dl[1]))) = 1

\* C10 as stated: whenever the second process's insert follows the first
\* process's commit, image_data ends with a single row for the content hash.
C10_InsertAfterCommitOneRow ==
    (AllDone /\ SameBytes /\ \E p, q \in Procs : Before(CommitOf(p), CommitOf(q)))
    => OneRowForTheBytes

\* C10 as amended: whenever the second process's dedup check follows the first
\* process's commit, image_data ends with a single row for the content hash.
C10_CheckAfterCommitOneRow ==
    (AllDone /\ SameBytes /\ \E p, q \in Procs : Before(CommitOf(p), CheckOf(q)))
    => OneRowForTheBytes

\* the second process checked after the first one's commit and returned its id
C10_Witness ==
    /\ AllDone
    /\ SameBytes
    /\ \E p, q \in Procs :
          /\ p # q
          /\ Before(CommitOf(p), CheckOf(q))
          /\ loc[p].ret # 0
          /\ loc[q].ret = loc[p].ret
    /\ OneRowForTheBytes

====
